---- MODULE Spec2Model ----
(***************************************************************************)
(* Model of testset/validation.py, the validation script of the WMT2025    *)
(* terminology shared task: main runs file_check, sample_check and         *)
(* datapoint_check over the files of an output and an input directory.     *)
(*                                                                         *)
(* Text that the script takes apart (file names, paths, record keys) is a  *)
(* sequence of one-character strings, so that split, join, endswith and    *)
(* slicing are computed as Python computes them.  A JSON value is a record *)
(* [ty, s, items]: ty is the Python type name, s the text of a str, items  *)
(* the elements of a list or the <<key, value>> pairs of a dict in         *)
(* insertion order.                                                        *)
(***************************************************************************)
EXTENDS Integers, Sequences, FiniteSets, TLC

\* ---------------------------------------------------------------- bounds
\* largest number of records of a file whose records are varied
MaxLines == 2
\* largest number of records of a file in the record-count scenarios
MaxCount == 3
\* largest number of records of one file that deviate from the input
MaxDefects == 1

\* ---------------------------------------------------------------- text
DOT == "."
SEP == "/"

Last(s) == s[Len(s)]

\* str.split(c): the pieces of s between the occurrences of c
Split(s, c) ==
    LET at == {i \in 1..Len(s) : s[i] = c}
        cut == [k \in 0..(Cardinality(at) + 1) |->
                   IF k = 0 THEN 0
                   ELSE IF k = Cardinality(at) + 1 THEN Len(s) + 1
                   ELSE CHOOSE i \in at : Cardinality({j \in at : j < i}) = k - 1]
    IN  [k \in 1..(Cardinality(at) + 1) |-> SubSeq(s, cut[k - 1] + 1, cut[k] - 1)]

RECURSIVE Join(_, _)
\* c.join(parts)
Join(parts, c) ==
    IF Len(parts) = 0 THEN <<>>
    ELSE IF Len(parts) = 1 THEN parts[1]
    ELSE parts[1] \o <<c>> \o Join(Tail(parts), c)

\* str.endswith(suf)
EndsWith(s, suf) ==
    /\ Len(suf) <= Len(s)
    /\ \A i \in 1..Len(suf) : s[Len(s) - Len(suf) + i] = suf[i]

\* f.split(os.path.sep)[-1]
Basename(p) == Last(Split(p, SEP))

\* text[:n] and text[n:]
Take(s, n) == SubSeq(s, 1, IF n < Len(s) THEN n ELSE Len(s))
Drop(s, n) == SubSeq(s, n + 1, Len(s))

Digit(d) == <<"0", "1", "2", "3", "4", "5", "6", "7", "8", "9">>[d + 1]

RECURSIVE IntToStr(_)
\* f'{year}' for a non-negative integer
IntToStr(n) == IF n < 10 THEN <<Digit(n)>> ELSE IntToStr(n \div 10) \o <<Digit(n % 10)>>

jsonl == <<"j", "s", "o", "n", "l">>
noterm == <<"n", "o", "t", "e", "r", "m">>
random == <<"r", "a", "n", "d", "o", "m">>
proper == <<"p", "r", "o", "p", "e", "r">>
terms == <<"t", "e", "r", "m", "s">>
enes == <<"e", "n", "e", "s">>
enru == <<"e", "n", "r", "u">>
ende == <<"e", "n", "d", "e">>
enzh == <<"e", "n", "z", "h">>
zhen == <<"z", "h", "e", "n">>
Modes == <<noterm, random, proper>>
TermModes == {random, proper}

SeqToSet(s) == {s[i] : i \in 1..Len(s)}

\* ---------------------------------------------------------------- JSON values
JStr(t) == [ty |-> "str", s |-> t, items |-> <<>>]
JInt(t) == [ty |-> "int", s |-> t, items |-> <<>>]
JList(xs) == [ty |-> "list", s |-> "", items |-> xs]
JDict(ps) == [ty |-> "dict", s |-> "", items |-> ps]

\* list(d.keys())
Keys(d) == [i \in 1..Len(d.items) |-> d.items[i][1]]
\* k in d.keys()
HasKey(d, k) == \E i \in 1..Len(d.items) : d.items[i][1] = k
\* d[k] for a key that d holds
Get(d, k) == d.items[CHOOSE i \in 1..Len(d.items) : d.items[i][1] = k][2]

RECURSIVE PyEq(_, _)
\* a == b on parsed JSON: dicts compare as mappings, lists element by element
PyEq(a, b) ==
    /\ a.ty = b.ty
    /\ a.s = b.s
    /\ IF a.ty = "dict"
       THEN /\ SeqToSet(Keys(a)) = SeqToSet(Keys(b))
            /\ \A k \in SeqToSet(Keys(a)) : PyEq(Get(a, k), Get(b, k))
       ELSE /\ Len(a.items) = Len(b.items)
            /\ \A i \in 1..Len(a.items) : PyEq(a.items[i], b.items[i])

\* ---------------------------------------------------------------- results
\* what a check returns (kind "ok") or raises: an AssertionError with one of
\* the script's messages (file, idx, exp and got are the values the message
\* is formatted from), or another exception (kind "Crash", got its type)
Res(kind, file, idx, exp, got) == [kind |-> kind, file |-> file, idx |-> idx, exp |-> exp, got |-> got]
OK == Res("ok", <<>>, -1, <<>>, <<>>)
Crash(exc) == Res("Crash", <<>>, -1, <<>>, exc)

\* the result of the first element of a loop whose body fails
FirstFail(rs) ==
    IF \A i \in 1..Len(rs) : rs[i].kind = "ok" THEN OK
    ELSE rs[CHOOSE i \in 1..Len(rs) : rs[i].kind # "ok" /\ \A j \in 1..(i - 1) : rs[j].kind = "ok"]

\* the value find_file_by_prefix returns when no file matches
None == <<"None">>

\* ---------------------------------------------------------------- Record Reader
\* fs maps each path that can be opened and parsed to its list of records;
\* a path that is absent, cannot be opened or holds a line that is not JSON
\* is outside DOMAIN fs or has ok = FALSE
file_basic_check(fs, filepath, opener) ==
    IF filepath \in DOMAIN fs /\ fs[filepath].ok
    THEN IF opener THEN [ty |-> "list", b |-> TRUE, data |-> fs[filepath].data]
         ELSE [ty |-> "bool", b |-> TRUE, data |-> <<>>]
    ELSE [ty |-> "bool", b |-> FALSE, data |-> <<>>]

\* ---------------------------------------------------------------- Naming Analyzer
file_naming_check(fname, track) ==
    LET fname_list == Split(fname, DOT)
        n == Len(fname_list)
        suffix_ok == /\ n >= 2
                     /\ fname_list[n] = jsonl
                     /\ fname_list[n - 1] \in SeqToSet(Modes)
    IN  IF track = 1
        THEN IF n = 4 /\ suffix_ok THEN OK ELSE Res("Naming", fname, -1, <<>>, <<>>)
        ELSE IF track = 2
        THEN IF n = 5 /\ suffix_ok THEN OK ELSE Res("Naming", fname, -1, <<>>, <<>>)
        ELSE OK

\* ---------------------------------------------------------------- Completeness Checker
Track1Pairs == <<enes, enru, ende>>
FirstYear == 2015
YearCount == 10
\* ['enzh', 'zhen'] * 5 zipped with range(2015, 2025)
YearPair(year) == IF (year - FirstYear) % 2 = 0 THEN enzh ELSE zhen

RECURSIVE ExpectedTrack1(_, _)
ExpectedTrack1(sysname, pairs) ==
    IF Len(pairs) = 0 THEN <<>>
    ELSE [m \in 1..3 |-> Join(<<sysname, Head(pairs), Modes[m], jsonl>>, DOT)]
         \o ExpectedTrack1(sysname, Tail(pairs))

RECURSIVE ExpectedTrack2(_, _, _)
ExpectedTrack2(sysname, year, n) ==
    IF n = 0 THEN <<>>
    ELSE [m \in 1..3 |-> Join(<<sysname, IntToStr(year), YearPair(year), Modes[m], jsonl>>, DOT)]
         \o ExpectedTrack2(sysname, year + 1, n - 1)

\* the years of the submitted names only
expected_fnames_present(fnames_list, sysname, track) ==
    LET submitted_pairs_candidates ==
            {LET t == Split(fnames_list[i], DOT) IN t[Len(t) - 2] : i \in 1..Len(fnames_list)}
        submitted_pairs == SelectSeq(Track1Pairs, LAMBDA p : p \in submitted_pairs_candidates)
        years == {Split(fnames_list[i], DOT)[2] : i \in 1..Len(fnames_list)}
    IN  IF track = 1 THEN ExpectedTrack1(sysname, submitted_pairs)
        ELSE IF track = 2
        THEN SelectSeq(ExpectedTrack2(sysname, FirstYear, YearCount), LAMBDA f : Split(f, DOT)[2] \in years)
        ELSE <<>>

\* fnames_list holds names that passed file_naming_check
expected_fnames(fnames_list, sysname, track) ==
    LET submitted_pairs_candidates ==
            {LET t == Split(fnames_list[i], DOT) IN t[Len(t) - 2] : i \in 1..Len(fnames_list)}
        submitted_pairs == SelectSeq(Track1Pairs, LAMBDA p : p \in submitted_pairs_candidates)
    IN  IF track = 1 THEN ExpectedTrack1(sysname, submitted_pairs)
        ELSE IF track = 2 THEN ExpectedTrack2(sysname, FirstYear, YearCount)
        ELSE <<>>

\* the proper files are not asked for
file_year_pair_check_two_modes(fnames_list, sysname, track) ==
    LET expected == expected_fnames(fnames_list, sysname, track)
    IN  FirstFail([i \in 1..Len(expected) |->
            IF expected[i] \in SeqToSet(fnames_list) \/ i % 3 = 0 THEN OK
            ELSE Res("Missing", expected[i], -1, <<>>, <<>>)])

file_year_pair_check(fnames_list, sysname, track) ==
    LET expected == expected_fnames(fnames_list, sysname, track)
    IN  FirstFail([i \in 1..Len(expected) |->
            IF expected[i] \in SeqToSet(fnames_list) THEN OK
            ELSE Res("Missing", expected[i], -1, <<>>, <<>>)])

\* ---------------------------------------------------------------- stage 1
IsJsonl(f) == EndsWith(f, <<DOT>> \o jsonl)

\* the system names are not compared
file_check_any_system(fs, output_list, track) ==
    LET outs == SelectSeq(output_list, IsJsonl)
        fnames_list == [i \in 1..Len(outs) |-> Basename(outs[i])]
        naming == FirstFail([i \in 1..Len(fnames_list) |-> file_naming_check(fnames_list[i], track)])
        submitted_sysname_candidates ==
            {Split(fnames_list[i], DOT)[1] : i \in 1..Len(fnames_list)}
        sysname == CHOOSE x \in submitted_sysname_candidates : TRUE
        pairs == file_year_pair_check(fnames_list, sysname, track)
        format == FirstFail([i \in 1..Len(outs) |->
                      IF file_basic_check(fs, outs[i], FALSE).b THEN OK
                      ELSE Res("Format", outs[i], -1, <<>>, <<>>)])
    IN  IF naming.kind # "ok" THEN naming
        ELSE IF submitted_sysname_candidates = {}
        THEN Res("SysName", <<>>, -1, <<>>, submitted_sysname_candidates)
        ELSE IF pairs.kind # "ok" THEN pairs
        ELSE format

file_check(fs, output_list, track) ==
    LET outs == SelectSeq(output_list, IsJsonl)
        fnames_list == [i \in 1..Len(outs) |-> Basename(outs[i])]
        naming == FirstFail([i \in 1..Len(fnames_list) |-> file_naming_check(fnames_list[i], track)])
        submitted_sysname_candidates ==
            {Split(fnames_list[i], DOT)[1] : i \in 1..Len(fnames_list)}
        sysname == CHOOSE x \in submitted_sysname_candidates : TRUE
        pairs == file_year_pair_check(fnames_list, sysname, track)
        format == FirstFail([i \in 1..Len(outs) |->
                      IF file_basic_check(fs, outs[i], FALSE).b THEN OK
                      ELSE Res("Format", outs[i], -1, <<>>, <<>>)])
    IN  IF naming.kind # "ok" THEN naming
        ELSE IF Cardinality(submitted_sysname_candidates) # 1
        THEN Res("SysName", <<>>, -1, <<>>, submitted_sysname_candidates)
        ELSE IF pairs.kind # "ok" THEN pairs
        ELSE format

\* ---------------------------------------------------------------- Consistency Checker
find_file_by_prefix(filename, file_list, is_input) ==
    LET name == IF is_input THEN Join(Tail(Split(filename, DOT)), DOT) ELSE filename
        hits == SelectSeq(file_list, LAMBDA f : EndsWith(f, name))
    IN  IF Len(hits) = 0 THEN None ELSE hits[1]

\* the exception d[k] raises, "" when it raises none
SubscriptError(d, k) ==
    IF d.ty = "dict" THEN (IF HasKey(d, k) THEN "" ELSE "KeyError") ELSE "TypeError"

\* d['terms'] if 'terms' in d.keys() else {}
TermsOrEmpty(d) == IF HasKey(d, terms) THEN Get(d, terms) ELSE JDict(<<>>)

\* the terms are not compared
sample_check_record_src_only(input_datapoint, output_datapoint, src, output_fname, idx) ==
    IF SubscriptError(input_datapoint, src) # "" THEN Crash(SubscriptError(input_datapoint, src))
    ELSE IF SubscriptError(output_datapoint, src) # "" THEN Crash(SubscriptError(output_datapoint, src))
    ELSE IF PyEq(Get(input_datapoint, src), Get(output_datapoint, src))
    THEN OK
    ELSE Res("Consistency", output_fname, idx, <<>>, <<>>)

\* the body of sample_check's loop over the records of one file
sample_check_record(input_datapoint, output_datapoint, src, output_fname, idx) ==
    IF SubscriptError(input_datapoint, src) # "" THEN Crash(SubscriptError(input_datapoint, src))
    ELSE IF SubscriptError(output_datapoint, src) # "" THEN Crash(SubscriptError(output_datapoint, src))
    ELSE IF /\ PyEq(Get(input_datapoint, src), Get(output_datapoint, src))
            /\ PyEq(TermsOrEmpty(input_datapoint), TermsOrEmpty(output_datapoint))
    THEN OK
    ELSE Res("Consistency", output_fname, idx, <<>>, <<>>)

\* the two counts change places in the message
sample_check_file_swapped(fs, fname, output_list, input_list) ==
    LET t == Split(fname, DOT)
        langpair == t[Len(t) - 2]
        src == Take(langpair, 2)
        output_fname == find_file_by_prefix(fname, output_list, FALSE)
        input_fname == find_file_by_prefix(fname, input_list, TRUE)
        output_data == file_basic_check(fs, output_fname, TRUE)
        input_data == file_basic_check(fs, input_fname, TRUE)
    IN  IF input_data.ty = "bool" \/ output_data.ty = "bool" THEN Crash("TypeError")
        ELSE IF Len(input_data.data) # Len(output_data.data)
        THEN Res("CountMismatch", output_fname, -1, Len(output_data.data), Len(input_data.data))
        ELSE FirstFail([i \in 1..Len(output_data.data) |->
                 sample_check_record(input_data.data[i], output_data.data[i], src, output_fname, i - 1)])

\* the body of sample_check's loop over the file names
sample_check_file(fs, fname, output_list, input_list) ==
    LET t == Split(fname, DOT)
        langpair == t[Len(t) - 2]
        src == Take(langpair, 2)
        output_fname == find_file_by_prefix(fname, output_list, FALSE)
        input_fname == find_file_by_prefix(fname, input_list, TRUE)
        output_data == file_basic_check(fs, output_fname, TRUE)
        input_data == file_basic_check(fs, input_fname, TRUE)
    IN  IF input_data.ty = "bool" \/ output_data.ty = "bool" THEN Crash("TypeError")
        ELSE IF Len(input_data.data) # Len(output_data.data)
        THEN Res("CountMismatch", output_fname, -1, Len(input_data.data), Len(output_data.data))
        ELSE FirstFail([i \in 1..Len(output_data.data) |->
                 sample_check_record(input_data.data[i], output_data.data[i], src, output_fname, i - 1)])

JsonlNames(output_list) ==
    LET outs == SelectSeq(output_list, IsJsonl)
    IN  [i \in 1..Len(outs) |-> Basename(outs[i])]

sample_check(fs, output_list, input_list) ==
    LET fnames_list == JsonlNames(output_list)
    IN  FirstFail([i \in 1..Len(fnames_list) |->
            sample_check_file(fs, fnames_list[i], output_list, input_list)])

\* ---------------------------------------------------------------- Schema Validator
\* (is_dict_format_okay, observed_dtype): the type of the first value, in the
\* mapping's order, that is not a str (track 1) or a list (track 2)
check_dict_format(tm, track) ==
    LET want == IF track = 1 THEN "str" ELSE "list"
        bad == SelectSeq(tm.items, LAMBDA p : p[2].ty # want)
    IN  IF Len(bad) = 0 THEN [okay |-> TRUE, dtype |-> "None"]
        ELSE [okay |-> FALSE, dtype |-> bad[1][2].ty]

\* the body of datapoint_check's loop over the records of one file
datapoint_check_record(datapoint, src, tgt, mode, track, output_fname, idx) ==
    LET key_list == IF mode \in TermModes THEN <<src, tgt, terms>> ELSE <<src, tgt>>
    IN  IF datapoint.ty # "dict" THEN Crash("AttributeError")
        ELSE IF SeqToSet(key_list) # SeqToSet(Keys(datapoint))
        THEN Res("KeySet", output_fname, idx, key_list, Keys(datapoint))
        ELSE IF Get(datapoint, src).ty # "str"
        THEN Res("SrcType", output_fname, idx, "str", Get(datapoint, src).ty)
        ELSE IF Get(datapoint, tgt).ty # "str"
        THEN Res("TgtType", output_fname, idx, "str", Get(datapoint, tgt).ty)
        ELSE IF mode \notin TermModes THEN OK
        ELSE IF Get(datapoint, terms).ty # "dict"
        THEN Res("TermsType", output_fname, idx, "dict", Get(datapoint, terms).ty)
        ELSE IF ~check_dict_format(Get(datapoint, terms), track).okay
        THEN Res("TermsValueType", output_fname, idx,
                 IF track = 1 THEN "str" ELSE "list(str)",
                 check_dict_format(Get(datapoint, terms), track).dtype)
        ELSE OK

\* the body of datapoint_check's loop over the file names
datapoint_check_file(fs, fname, output_list, track) ==
    LET t == Split(fname, DOT)
        langpair == t[Len(t) - 2]
        src == Take(langpair, 2)
        tgt == Drop(langpair, 2)
        mode == t[Len(t) - 1]
        output_fname == find_file_by_prefix(fname, output_list, FALSE)
        data == file_basic_check(fs, output_fname, TRUE)
    IN  IF data.ty = "bool" THEN Crash("TypeError")
        ELSE FirstFail([i \in 1..Len(data.data) |->
                 datapoint_check_record(data.data[i], src, tgt, mode, track, output_fname, i - 1)])

datapoint_check(fs, output_list, track) ==
    LET fnames_list == JsonlNames(output_list)
    IN  FirstFail([i \in 1..Len(fnames_list) |->
            datapoint_check_file(fs, fnames_list[i], output_list, track)])

\* ---------------------------------------------------------------- state
VARIABLES
    track,        \* args.track
    output_list,  \* the paths of args.outputs, in os.listdir's order
    input_list,   \* the paths of args.inputs, in os.listdir's order
    disk,         \* the content of every listed path
    pc,           \* the statement main is about to execute
    printed,      \* the lines printed so far
    err           \* the exception that ended the run, OK while there is none

vars == <<track, output_list, input_list, disk, pc, printed, err>>

Line1 == "Test 1/3: checking filenames consistency..."
Done1 == "CHECK FILENAMES: DONE"
Line2 == "Test 2/3: checking consistency with source data..."
Done2 == "CHECK CONSISTENCY WITH SOURCE DATA: DONE"
Line3 == "Test 3/3: checking validity of data points..."
Done3 == "CHECK VALIDITY OF DATA POINTS: DONE"
Ready == "All entries formated correctly. The files are ready for submission."

\* ---------------------------------------------------------------- main
\* parse_args, the track test and the two os.listdir calls
MainArgs ==
    /\ pc = "args"
    /\ IF track \in {1, 2}
       THEN pc' = "file_check" /\ err' = err
       ELSE pc' = "aborted" /\ err' = Crash("Exception")
    /\ UNCHANGED <<track, output_list, input_list, disk, printed>>

\* main goes on to the next stage after a failure
StageContinue(here, next, r, first, done) ==
    /\ pc = here
    /\ IF r.kind = "ok"
       THEN /\ printed' = printed \o <<first, done>>
            /\ err' = err
       ELSE /\ printed' = Append(printed, first)
            /\ err' = r
    /\ pc' = next
    /\ UNCHANGED <<track, output_list, input_list, disk>>

\* a stage of main: the stage prints its first line, runs to its result r,
\* and main prints the stage's message when the stage returned
Stage(here, next, r, first, done) ==
    /\ pc = here
    /\ IF r.kind = "ok"
       THEN /\ printed' = printed \o <<first, done>>
            /\ pc' = next
            /\ err' = err
       ELSE /\ printed' = Append(printed, first)
            /\ pc' = "aborted"
            /\ err' = r
    /\ UNCHANGED <<track, output_list, input_list, disk>>

MainFileCheck ==
    Stage("file_check", "sample_check", file_check(disk, output_list, track), Line1, Done1)

MainSampleCheck ==
    Stage("sample_check", "datapoint_check", sample_check(disk, output_list, input_list), Line2, Done2)

MainDatapointCheck ==
    Stage("datapoint_check", "ready", datapoint_check(disk, output_list, track), Line3, Done3)

MainReady ==
    /\ pc = "ready"
    /\ printed' = Append(printed, Ready)
    /\ pc' = "done"
    /\ UNCHANGED <<track, output_list, input_list, disk, err>>

Next == MainArgs \/ MainFileCheck \/ MainSampleCheck \/ MainDatapointCheck \/ MainReady

\* ---------------------------------------------------------------- directories
OutDir == <<"o">>
InDir == <<"i">>
\* f'{args.outputs}{os.path.sep}{f}'
Path(dir, f) == dir \o <<SEP>> \o f
Name(toks) == Join(toks, DOT)

Reverse(q) == [i \in 1..Len(q) |-> q[Len(q) + 1 - i]]
\* the elements of q at the positions in S, in q's order
Pick(q, S) ==
    LET idx == SelectSeq([i \in 1..Len(q) |-> i], LAMBDA i : i \in S)
    IN  [j \in 1..Len(idx) |-> q[idx[j]]]
Without(q, x) == SelectSeq(q, LAMBDA y : y # x)

sysS == <<"s">>
sysT == <<"t">>
enfr == <<"e", "n", "f", "r">>
KnownPairs == {enes, enru, ende, enzh, zhen}
keyA == <<"a">>
keyB == <<"b">>
keyId == <<"i", "d">>

\* the terms of an input record: a value of the shape the track asks for
GoodTerms(tr) == JDict(<<<<keyA, IF tr = 1 THEN JStr("x") ELSE JList(<<JStr("x")>>)>>>>)

\* stands for the value of a key that a record does not hold
Absent == [ty |-> "absent", s |-> "", items |-> <<>>]

\* an input record of a file named ...pair.mode.jsonl whose terms are tin
InRecord(src, tin) ==
    JDict(<<<<src, JStr("Hi")>>>> \o (IF tin.ty = "absent" THEN <<>> ELSE <<<<terms, tin>>>>))

\* the output record that copies an input record and adds the target field
Skeleton(inrec, tgt) == JDict(inrec.items \o <<<<tgt, JStr("Hola")>>>>)

NameSrc(f) == LET t == Split(f, DOT) IN Take(t[Len(t) - 2], 2)
NameTgt(f) == LET t == Split(f, DOT) IN Drop(t[Len(t) - 2], 2)
NameMode(f) == LET t == Split(f, DOT) IN t[Len(t) - 1]
NamePair(f) == LET t == Split(f, DOT) IN t[Len(t) - 2]
\* the name of the input file that holds the source data of output name f
InputName(f) == Join(Tail(Split(f, DOT)), DOT)

DefaultTin(f, tr) == IF NameMode(f) \in TermModes THEN GoodTerms(tr) ELSE Absent
\* a well-formed pair of files of n records for the output name f
DefaultIn(f, tr, n) == [ok |-> TRUE, data |-> [i \in 1..n |-> InRecord(NameSrc(f), DefaultTin(f, tr))]]
DefaultOut(f, tr, n) ==
    [ok |-> TRUE, data |-> [i \in 1..n |-> Skeleton(InRecord(NameSrc(f), DefaultTin(f, tr)), NameTgt(f))]]
Unreadable == [ok |-> FALSE, data |-> <<>>]

\* the directories of a submission with the output names outs: every .jsonl
\* name of a known language pair has its input file, and every file holds one
\* well-formed record; other files are not JSON
HasInput(f) == IsJsonl(f) /\ Len(Split(f, DOT)) >= 3 /\ NamePair(f) \in KnownPairs
InputsFor(outs) ==
    LET with == SelectSeq(outs, HasInput)
    IN  [i \in 1..Len(with) |-> InputName(with[i])]
FileOf(f, tr, isOutput) ==
    IF ~IsJsonl(f) \/ Len(Split(f, DOT)) < 3 THEN Unreadable
    ELSE IF isOutput THEN DefaultOut(f, tr, 1)
    ELSE DefaultIn(sysS \o <<DOT>> \o f, tr, 1)
DefaultDisk(outs, tr) ==
    [p \in {Path(OutDir, outs[i]) : i \in 1..Len(outs)} |-> FileOf(Basename(p), tr, TRUE)]
    @@ [p \in {Path(InDir, InputName(outs[i])) : i \in {j \in 1..Len(outs) : HasInput(outs[j])}} |->
           FileOf(Basename(p), tr, FALSE)]
Paths(dir, names) == [i \in 1..Len(names) |-> Path(dir, names[i])]

\* ---------------------------------------------------------------- submissions that differ in their file names
Three(sys, mid) == [m \in 1..3 |-> Name(sys \o mid \o <<Modes[m], jsonl>>)]
Extras1 == << Name(<<sysS, ende, noterm, jsonl>>),
              Name(<<sysT, enes, noterm, jsonl>>),
              Name(<<sysS, enes, jsonl>>),
              Name(<<sysT, enes, jsonl>>),
              Name(<<sysS, enes, <<"o", "t", "h", "e", "r">>, jsonl>>),
              Name(<<<<"r", "e", "a", "d", "m", "e">>, <<"t", "x", "t">>>>) >>
Extras2 == << Name(<<sysS, IntToStr(2016), enzh, noterm, jsonl>>),
              Name(<<sysT, IntToStr(2015), enzh, noterm, jsonl>>),
              Name(<<sysS, IntToStr(1999), enzh, noterm, jsonl>>),
              Name(<<sysS, enes, noterm, jsonl>>),
              Name(<<sysT, enes, noterm, jsonl>>),
              Name(<<<<"r", "e", "a", "d", "m", "e">>, <<"t", "x", "t">>>>) >>

\* track 1: any files of enes, some files of enru, none, two or three files
\* of the pair enfr that the script does not know, and at most one other file
Names1 ==
    { Pick(Three(<<sysS>>, <<enes>>), A) \o Pick(Three(<<sysS>>, <<enru>>), B)
        \o Pick(Three(<<sysS>>, <<enfr>>), C) \o Pick(Extras1, {x})
      : A \in SUBSET (1..3), B \in {{}, {3}, {1, 2}, {1, 2, 3}},
        C \in {{}, {1, 2}, {1, 2, 3}}, x \in 0..Len(Extras1) }

\* track 2: the files of all ten years, of two, of one or of none, less at
\* most one of them, and at most one other file
AllYears == FirstYear..(FirstYear + YearCount - 1)
Thirty == ExpectedTrack2(sysS, FirstYear, YearCount)
YearFiles(Y) == SelectSeq(Thirty, LAMBDA f : \E y \in Y : Split(f, DOT)[2] = IntToStr(y))
Names2 ==
    UNION { { Pick(files, (1..Len(files)) \ {d}) \o Pick(Extras2, {x})
              : d \in 0..Len(files), x \in 0..Len(Extras2) }
            : files \in {YearFiles(AllYears), YearFiles({2015, 2016}), YearFiles({2016}), YearFiles({})} }

\* a track that main rejects
Names0 == {Three(<<sysS>>, <<enes>>)}

NamesOf(tr) == IF tr = 2 THEN Names2 ELSE IF tr = 1 THEN Names1 ELSE Names0
\* every file that a name submission of the track may hold
AllNames ==
    [tr \in {0, 1, 2} |->
        IF tr = 2 THEN Thirty \o Extras2
        ELSE Three(<<sysS>>, <<enes>>) \o Three(<<sysS>>, <<enru>>) \o Three(<<sysS>>, <<enfr>>) \o Extras1]
AllFiles == [tr \in {0, 1, 2} |-> DefaultDisk(AllNames[tr], tr)]
\* the directories of the name submissions, in both listing orders
NameCases ==
    UNION { UNION { UNION { { [track |-> tr,
                               outs |-> Paths(OutDir, o),
                               ins |-> Paths(InDir, ins),
                               disk |-> [p \in SeqToSet(Paths(OutDir, o)) \cup SeqToSet(Paths(InDir, ins))
                                           |-> AllFiles[tr][p]]]
                              : ins \in {InputsFor(o)} }
                            : o \in {names, Reverse(names)} }
                    : names \in NamesOf(tr) }
            : tr \in {0, 1, 2} }

InitNames ==
    /\ \E c \in NameCases :
         /\ track = c.track
         /\ output_list = c.outs
         /\ input_list = c.ins
         /\ disk = c.disk
    /\ pc = "args"
    /\ printed = <<>>
    /\ err = OK

SpecNames == InitNames /\ [][Next]_vars

\* ---------------------------------------------------------------- submissions that differ in their records
\* d with the key k removed
WithoutKey(d, k) == JDict(SelectSeq(d.items, LAMBDA q : q[1] # k))
\* d with d[k] = v
SetKey(d, k, v) ==
    IF HasKey(d, k)
    THEN JDict([i \in 1..Len(d.items) |-> IF d.items[i][1] = k THEN <<k, v>> ELSE d.items[i]])
    ELSE JDict(Append(d.items, <<k, v>>))

TermsValues ==
    { JDict(<<>>),
      JDict(<<<<keyA, JStr("x")>>>>),
      JDict(<<<<keyA, JList(<<JStr("x")>>)>>>>),
      JDict(<<<<keyA, JList(<<JInt("1")>>)>>>>),
      JDict(<<<<keyA, JStr("x")>>, <<keyB, JList(<<JStr("y")>>)>>>>),
      JList(<<>>) }
\* the terms of the records of an input file
InputTerms ==
    { Absent,
      JDict(<<>>),
      JDict(<<<<keyA, JStr("x")>>>>),
      JDict(<<<<keyA, JList(<<JStr("x")>>)>>>>),
      JDict(<<<<keyA, JList(<<JInt("1")>>)>>>>),
      JList(<<>>) }

\* the output records that deviate from the copy of the input record inrec
Variants(inrec, src, tgt) ==
    LET sk == Skeleton(inrec, tgt)
    IN  ( {WithoutKey(sk, k) : k \in {src, tgt, terms}}
          \cup {SetKey(sk, src, JStr("Yo")), SetKey(sk, src, JInt("1")), SetKey(sk, tgt, JInt("1")),
                SetKey(sk, keyId, JInt("1")), JList(<<>>)}
          \cup {SetKey(sk, terms, t) : t \in TermsValues} ) \ {sk}

\* the lists of n records of which at most k deviate from the copy of inrec
Deviating(inrec, src, tgt, n, k) ==
    UNION { { [i \in 1..n |-> IF i \in D THEN g[i] ELSE Skeleton(inrec, tgt)]
              : g \in [D -> Variants(inrec, src, tgt)] }
            : D \in {X \in SUBSET (1..n) : Cardinality(X) <= k} }

DataNames(tr) == IF tr = 1 THEN Three(<<sysS>>, <<enes>>) ELSE Thirty
\* the output files whose content, or whose input file's content, varies
Targets(tr) ==
    IF tr = 1 THEN SeqToSet(Three(<<sysS>>, <<enes>>))
    ELSE {Name(<<sysS, IntToStr(2016), zhen, random, jsonl>>)}
\* track 2 needs thirty files to pass stage 1: one deviating record there
Defects(tr) == IF tr = 1 THEN MaxDefects ELSE 1

\* the contents of the target f and of its input file; store tells under
\* which name the input directory holds the input file: "mode" for the
\* output name less its system name, "pair" for a name without the mode
\* (bad.2016.zhen.jsonl), "none" when the directory does not hold it
Contents(f, tr) ==
    { [out |-> DefaultOut(f, tr, no), in |-> DefaultIn(f, tr, ni), store |-> st]
      : no \in 0..MaxCount, ni \in 0..MaxCount, st \in {"mode", "pair"} }
    \cup
    UNION { UNION { { [out |-> [ok |-> TRUE, data |-> recs],
                       in |-> [ok |-> TRUE, data |-> [i \in 1..n |-> InRecord(NameSrc(f), tin)]],
                       store |-> "mode"]
                      : recs \in Deviating(InRecord(NameSrc(f), tin), NameSrc(f), NameTgt(f), n, Defects(tr)) }
                    : n \in 0..MaxLines }
            : tin \in InputTerms }
    \cup
    { [out |-> Unreadable, in |-> DefaultIn(f, tr, 1), store |-> "mode"],
      [out |-> DefaultOut(f, tr, 1), in |-> Unreadable, store |-> "mode"],
      [out |-> DefaultOut(f, tr, 1), in |-> Unreadable, store |-> "none"] }

bad == <<"b", "a", "d">>
PairName(f) == LET t == Split(f, DOT) IN Name(<<bad>> \o SubSeq(t, 2, Len(t) - 2) \o <<jsonl>>)

Disk1 == DefaultDisk(DataNames(1), 1)
Disk2 == DefaultDisk(DataNames(2), 2)

\* another file of the submission, which may disagree with its input
Second(f, tr) == IF DataNames(tr)[1] = f THEN DataNames(tr)[2] ELSE DataNames(tr)[1]
Disagreeing(g, tr) ==
    [ok |-> TRUE, data |-> <<SetKey(DefaultOut(g, tr, 1).data[1], NameSrc(g), JStr("Yo"))>>]

\* the two listings of the data submissions of each track
Listing ==
    [tr \in {1, 2} |-> [rev \in BOOLEAN |->
        LET outs == IF rev THEN Reverse(DataNames(tr)) ELSE DataNames(tr)
        IN  [outs |-> Paths(OutDir, outs), ins |-> Paths(InDir, InputsFor(outs))]]]

InitData ==
    /\ track \in {1, 2}
    /\ \E f \in Targets(track), rev \in BOOLEAN, second \in BOOLEAN :
       \E fout \in {Path(OutDir, f)}, fin \in {Path(InDir, InputName(f))}, pin \in {Path(InDir, PairName(f))},
          gout \in {Path(OutDir, Second(f, track))}, gdata \in {Disagreeing(Second(f, track), track)},
          ins \in {Listing[track][rev].ins}, base \in {IF track = 1 THEN Disk1 ELSE Disk2} :
       \E c \in Contents(f, track) :
       \E stored \in {IF c.store = "pair" THEN pin ELSE fin} :
       \E full \in {[p \in {fout, stored} \cup (IF second THEN {gout} ELSE {}) |->
                       IF p = fout THEN c.out ELSE IF p = stored THEN c.in ELSE gdata] @@ base} :
         /\ output_list = Listing[track][rev].outs
         /\ input_list = IF c.store = "mode" THEN ins
                         ELSE IF c.store = "none" THEN Without(ins, fin)
                         ELSE [i \in 1..Len(ins) |-> IF ins[i] = fin THEN pin ELSE ins[i]]
         /\ disk = IF c.store = "mode" THEN full ELSE [p \in DOMAIN full \ {fin} |-> full[p]]
    /\ pc = "args"
    /\ printed = <<>>
    /\ err = OK

SpecData == InitData /\ [][Next]_vars

Init == InitNames \/ InitData

Spec == Init /\ [][Next]_vars

\* ---------------------------------------------------------------- properties
Printed(line) == \E i \in 1..Len(printed) : printed[i] = line
IsPrefix(a, b) == Len(a) <= Len(b) /\ SubSeq(b, 1, Len(a)) = a
Transcript == <<Line1, Done1, Line2, Done2, Line3, Done3, Ready>>

\* the names of the submitted .jsonl files
Submitted == {Basename(output_list[i]) : i \in {j \in 1..Len(output_list) : IsJsonl(output_list[j])}}
Tok(f) == Split(f, DOT)
\* stage 1 has run and the names passed the naming and the system-name checks
WellNamedRun == Printed(Line1) /\ err.kind \notin {"Naming", "SysName"}
\* every submitted name has the token count and the mode token of its track
WellNamed ==
    \A f \in Submitted :
        /\ Len(Tok(f)) = (IF track = 1 THEN 4 ELSE 5)
        /\ Tok(f)[Len(Tok(f)) - 1] \in {noterm, random, proper}
\* the name of f's file of mode m
Sibling(f, m) == Join([Tok(f) EXCEPT ![Len(Tok(f)) - 1] = m], DOT)
\* the submission holds all three modes of every pair, or year and pair, it contains
HoldsAllModes == \A f \in Submitted, m \in {noterm, random, proper} : Sibling(f, m) \in Submitted
\* the file of year y and mode m that track 2 schedules, for the system name sys
Scheduled(sys, y, m) ==
    sys \o <<DOT>> \o IntToStr(y) \o <<DOT>> \o (IF y % 2 = 1 THEN enzh ELSE zhen)
        \o <<DOT>> \o m \o <<DOT>> \o jsonl
\* f is a file that the Completeness Checker asks for
Required(f) ==
    IF track = 1 THEN Tok(f)[2] \in {enes, enru, ende}
    ELSE \E y \in AllYears, m \in {noterm, random, proper} : f = Scheduled(Tok(f)[1], y, m)

\* C1: the lines printed so far are a prefix of the success transcript; stage
\* 2 has started only if stage 1 succeeds on the submission, stage 3 only if
\* stage 2 does, the final line is printed only if all three do, and a run
\* that failed is aborted right after the first line of the failing stage.
C1_Pipeline ==
    /\ IsPrefix(printed, Transcript)
    /\ Len(printed) >= 3 => file_check(disk, output_list, track).kind = "ok"
    /\ Len(printed) >= 5 => sample_check(disk, output_list, input_list).kind = "ok"
    /\ Len(printed) = 7 => datapoint_check(disk, output_list, track).kind = "ok" /\ err = OK /\ pc = "done"
    /\ err.kind # "ok" => pc = "aborted" /\ Len(printed) \in {0, 1, 3, 5}
    /\ pc = "aborted" => err.kind # "ok"

C1_Witness == pc = "done" /\ printed = Transcript

\* C2 as stated: a well-named submission fails the completeness check only
\* when some pair (track 1) or year and pair (track 2) it contains lacks one
\* of its three mode files.
C2_Original == WellNamedRun /\ err.kind = "Missing" => ~HoldsAllModes

\* C2 amended: in track 1 the check fails exactly when some pair among enes,
\* enru, ende that the submission contains lacks one of its three mode files;
\* in track 2 it fails exactly when one of the thirty files of the years 2015
\* to 2024 is absent, whichever years the submission contains.
C2_Completeness ==
    WellNamedRun =>
        LET sys == CHOOSE x \in {Tok(f)[1] : f \in Submitted} : TRUE
        IN  err.kind = "Missing" <=>
              IF track = 1
              THEN \E f \in Submitted :
                     Tok(f)[2] \in {enes, enru, ende} /\ \E m \in {noterm, random, proper} : Sibling(f, m) \notin Submitted
              ELSE \E y \in AllYears, m \in {noterm, random, proper} : Scheduled(sys, y, m) \notin Submitted

C2_Witness == track = 2 /\ WellNamedRun /\ err.kind = "Missing" /\ HoldsAllModes /\ Submitted # {}

\* the other two mode files of f's pair (track 1) or year (track 2) are submitted
OthersStay(f) ==
    \A m \in {noterm, random, proper} \ {Tok(f)[Len(Tok(f)) - 1]} :
        \E g \in Submitted \ {f} :
            /\ Tok(g)[Len(Tok(g)) - 1] = m
            /\ IF track = 1 THEN Tok(g)[2] = Tok(f)[2] ELSE Tok(g)[2] = Tok(f)[2]
Removed(p) == file_check(disk, Without(output_list, p), track)
MissingFile(f) == Res("Missing", f, -1, <<>>, <<>>)

\* C3 as stated: from a submission that passes stage 1, removing any file
\* whose other mode files stay makes stage 1 fail with the missing-file error
\* that names the removed file.
C3_Original ==
    pc = "sample_check" =>
        \A i \in 1..Len(output_list) :
            IsJsonl(output_list[i]) /\ OthersStay(Basename(output_list[i]))
                => Removed(output_list[i]) = MissingFile(Basename(output_list[i]))

\* C3 amended: from a submission that passes stage 1, removing any file that
\* the Completeness Checker asks for (track 1: a file of enes, enru or ende;
\* track 2: one of the thirty scheduled files) makes stage 1 fail with the
\* missing-file error that names the removed file.
C3_Removal ==
    pc = "sample_check" =>
        \A i \in 1..Len(output_list) :
            IsJsonl(output_list[i]) /\ Required(Basename(output_list[i]))
                => Removed(output_list[i]) = MissingFile(Basename(output_list[i]))

\* the run failed on a missing file, and passes stage 1 with that file added
C3_Witness ==
    /\ pc = "aborted"
    /\ err.kind = "Missing"
    /\ LET p == Path(OutDir, err.file)
       IN  file_check((p :> [ok |-> TRUE, data |-> <<>>]) @@ disk, Append(output_list, p), track).kind = "ok"

DifferentSystems == \E f, g \in Submitted : Tok(f)[1] # Tok(g)[1]

\* C4 as stated: two submitted .jsonl files with different system names
\* always end the run with the system-name error.
C4_Original == track \in {1, 2} /\ Printed(Line1) /\ DifferentSystems => err.kind = "SysName"

\* C4 amended: two submitted .jsonl files with different system names end
\* the run with the system-name error, which lists the names, when every
\* submitted .jsonl name passes the naming check.
C4_SystemName ==
    Printed(Line1) /\ DifferentSystems /\ WellNamed
        => /\ pc = "aborted"
           /\ err.kind = "SysName"
           /\ err.got = {Tok(f)[1] : f \in Submitted}

C4_Witness == err.kind = "SysName" /\ DifferentSystems /\ WellNamed

\* ---------------------------------------------------------------- properties of stages 2 and 3
\* the submitted .jsonl paths in the listing's order
OutPaths == SelectSeq(output_list, IsJsonl)
Readable(p) == p \in DOMAIN disk /\ disk[p].ok
Passed1 == Len(printed) >= 2 /\ printed[2] = Done1
Ended == pc \in {"aborted", "done"}
\* the output name f less its system name and the dot
Stripped(f) == Drop(f, Len(Tok(f)[1]) + 1)
\* the first listed input path that ends with the stripped name, if any
PairedInput(f) ==
    LET hits == {i \in 1..Len(input_list) : EndsWith(input_list[i], Stripped(f))}
    IN  IF hits = {} THEN None ELSE input_list[CHOOSE i \in hits : \A j \in hits : i <= j]
\* stage 2's result for each submitted file
PerFile2 == [k \in 1..Len(OutPaths) |-> sample_check_file(disk, Basename(OutPaths[k]), output_list, input_list)]
\* stage 2, with the results rs for the files, reaches the k-th submitted file
Reaches2(rs, k) == \A j \in 1..(k - 1) : rs[j].kind = "ok"
\* the name g is the one of an input file for the (year and) pair of the
\* output name f, with or without f's mode and with or without a prefix
NameIsFor(g, f) ==
    LET key == SubSeq(Tok(f), 2, Len(Tok(f)) - 2)
        mode == Tok(f)[Len(Tok(f)) - 1]
    IN  \E pre \in {0, 1} :
            /\ Len(Tok(g)) > pre
            /\ SubSeq(Tok(g), pre + 1, Len(Tok(g))) \in {key \o <<jsonl>>, key \o <<mode, jsonl>>}

\* C5 as stated: an output file that passed stage 1 and holds another number
\* of records than the input file of its (year and) pair, bad.2016.zhen.jsonl
\* for sys.2016.zhen.random.jsonl, ends stage 2 with the count-mismatch error
\* that reports the input's count as expected and the output's as got.
C5_Original ==
    Printed(Line2) =>
        \A rs \in {PerFile2} : \A k \in 1..Len(OutPaths), i \in 1..Len(input_list) :
            LET p == OutPaths[k]
                g == input_list[i]
            IN  /\ Reaches2(rs, k)
                /\ NameIsFor(Basename(g), Basename(p))
                /\ Readable(g)
                /\ Len(disk[g].data) # Len(disk[p].data)
                => err = Res("CountMismatch", p, -1, Len(disk[g].data), Len(disk[p].data))

\* C5 amended: the input file of an output file is the first listed input
\* path that ends with the output name less its system name, mode included
\* (2016.zhen.random.jsonl for sys.2016.zhen.random.jsonl); when stage 2
\* reaches an output file whose input file was read and holds another number
\* of records, the run ends with the count-mismatch error for that output
\* path, the input's count as expected and the output's as got.
C5_CountMismatch ==
    Printed(Line2) =>
        \A rs \in {PerFile2} : \A k \in 1..Len(OutPaths) :
            LET p == OutPaths[k]
                g == PairedInput(Basename(p))
            IN  /\ Reaches2(rs, k)
                /\ Readable(g)
                /\ Len(disk[g].data) # Len(disk[p].data)
                => /\ pc = "aborted"
                   /\ err = Res("CountMismatch", p, -1, Len(disk[g].data), Len(disk[p].data))

C5_Witness ==
    /\ track = 2
    /\ err = Res("CountMismatch", Path(OutDir, Name(<<sysS, IntToStr(2016), zhen, random, jsonl>>)), -1, 2, 3)

\* the three stages pass on the directories with the files fs
PassesAll(fs) ==
    /\ file_check(fs, output_list, track).kind = "ok"
    /\ sample_check(fs, output_list, input_list).kind = "ok"
    /\ datapoint_check(fs, output_list, track).kind = "ok"
\* fs with record i of path p replaced by r
WithRecord(fs, p, i, r) == [fs EXCEPT ![p] = [ok |-> TRUE, data |-> [fs[p].data EXCEPT ![i] = r]]]
IsDict(v) == v.ty = "dict"
\* record i of the input file of path p, Absent when there is none
InputRecord(p, i) ==
    LET g == PairedInput(Basename(p))
    IN  IF Readable(g) /\ i <= Len(disk[g].data) THEN disk[g].data[i] ELSE Absent
\* the value of key k in the terms of record r, Absent when there is none
TermOf(r, k) ==
    IF IsDict(r) /\ HasKey(r, terms) /\ IsDict(Get(r, terms)) /\ HasKey(Get(r, terms), k)
    THEN Get(Get(r, terms), k) ELSE Absent
WrongShape == IF track = 1 THEN "list" ELSE "str"
\* record i of the random or proper output path p is the record of a
\* submission that passes all three stages, but for the value of the term k,
\* which has the shape of the other track
ShapeChanged(p, i, k) ==
    LET r == disk[p].data[i]
        v == TermOf(InputRecord(p, i), k)
    IN  /\ NameMode(Basename(p)) \in TermModes
        /\ TermOf(r, k).ty = WrongShape
        /\ v.ty # "absent"
        /\ PassesAll(WithRecord(disk, p, i, SetKey(r, terms, SetKey(Get(r, terms), k, v))))
\* C6 as stated: changing the shape of one terms value of one record of a
\* submission that passes ends the run with the wrong-terminology-value-type
\* error for that file and record index.
C6_Original ==
    Ended =>
        \A n \in 1..Len(OutPaths), k \in {keyA, keyB} :
            Readable(OutPaths[n]) =>
                \A i \in 1..Len(disk[OutPaths[n]].data) :
                    ShapeChanged(OutPaths[n], i, k)
                        => /\ err.kind = "TermsValueType"
                           /\ err.file = OutPaths[n]
                           /\ err.idx = i - 1

\* C6 amended: changing the shape of one terms value of one record of a
\* submission that passes ends the run in stage 2, with the consistency error
\* for that file and record index; stage 3 does not start.
C6_Consistency ==
    Ended =>
        \A n \in 1..Len(OutPaths), k \in {keyA, keyB} :
            Readable(OutPaths[n]) =>
                \A i \in 1..Len(disk[OutPaths[n]].data) :
                    ShapeChanged(OutPaths[n], i, k)
                        => /\ pc = "aborted"
                           /\ err = Res("Consistency", OutPaths[n], i - 1, <<>>, <<>>)
                           /\ ~Printed(Line3)

C6_Witness ==
    /\ pc = "aborted"
    /\ err.kind = "Consistency"
    /\ \E n \in 1..Len(OutPaths), k \in {keyA, keyB} :
          /\ err.file = OutPaths[n]
          /\ ShapeChanged(OutPaths[n], err.idx + 1, k)

\* the keys that stage 3 expects in the records of the output name f
ExpectedKeys(f) ==
    IF NameMode(f) \in TermModes THEN <<NameSrc(f), NameTgt(f), terms>> ELSE <<NameSrc(f), NameTgt(f)>>
\* the record that copies the source sentence and the terms of the input
\* record inrec and holds the keys that stage 3 expects of f
WellFormed(inrec, f) ==
    JDict(<<<<NameSrc(f), Get(inrec, NameSrc(f))>>, <<NameTgt(f), JStr("Hola")>>>>
          \o (IF NameMode(f) \in TermModes THEN <<<<terms, TermsOrEmpty(inrec)>>>> ELSE <<>>))
\* the only defect of the submission is the key set of record i of path p
KeyDefect(p, i) ==
    LET r == disk[p].data[i]
        f == Basename(p)
        inrec == InputRecord(p, i)
    IN  /\ IsDict(r)
        /\ SeqToSet(Keys(r)) # SeqToSet(ExpectedKeys(f))
        /\ IsDict(inrec) /\ HasKey(inrec, NameSrc(f))
        /\ \A k \in (SeqToSet(Keys(r)) \cap SeqToSet(ExpectedKeys(f))) \ {NameTgt(f)} :
              PyEq(Get(r, k), Get(WellFormed(inrec, f), k))
        /\ PassesAll(WithRecord(disk, p, i, WellFormed(inrec, f)))

\* C7: a submission whose only defect is the key set of one record ends the
\* run with the wrong-key-set error for that file and record index, which
\* reports the expected and the observed keys.
C7_KeySet ==
    Ended =>
        \A n \in 1..Len(OutPaths) :
            Readable(OutPaths[n]) =>
                \A i \in 1..Len(disk[OutPaths[n]].data) :
                    KeyDefect(OutPaths[n], i)
                        => /\ err.kind = "KeySet"
                           /\ err.file = OutPaths[n]
                           /\ err.idx = i - 1
                           /\ err.exp = ExpectedKeys(Basename(OutPaths[n]))
                           /\ err.got = Keys(disk[OutPaths[n]].data[i])

\* the value of key k in record r, Absent when r does not hold it
Field(r, k) == IF IsDict(r) /\ HasKey(r, k) THEN Get(r, k) ELSE Absent
\* the terms of record r, the empty mapping when r holds none
TermsField(r) == IF IsDict(r) /\ HasKey(r, terms) THEN Get(r, terms) ELSE JDict(<<>>)
SameValue(a, b) == a.ty # "absent" /\ b.ty # "absent" /\ PyEq(a, b)
\* the indexes at which the output path p and its input path g disagree
Mismatches(p, g) ==
    { i \in 1..Len(disk[p].data) :
        ~ /\ SameValue(Field(disk[g].data[i], NameSrc(Basename(p))), Field(disk[p].data[i], NameSrc(Basename(p))))
          /\ PyEq(TermsField(disk[g].data[i]), TermsField(disk[p].data[i])) }

\* C8: for an output file and its input file with equal record counts, the
\* Consistency Checker passes exactly when the source field and the terms
\* agree at every index, and fails otherwise with the consistency error for
\* the file and the smallest index that disagrees.
C8_Consistency ==
    Printed(Line2) =>
        \A rs \in {PerFile2} : \A n \in 1..Len(OutPaths) :
            LET p == OutPaths[n]
                g == PairedInput(Basename(p))
            IN  Readable(p) /\ Readable(g) /\ Len(disk[g].data) = Len(disk[p].data)
                => rs[n] =
                     IF Mismatches(p, g) = {} THEN OK
                     ELSE Res("Consistency", p, (CHOOSE i \in Mismatches(p, g) : \A j \in Mismatches(p, g) : i <= j) - 1,
                              <<>>, <<>>)

\* C9: when stage 2 reaches an output file whose input file was not found or
\* cannot be read as JSON Lines, the run ends with the format failure for
\* that file and not with another exception.
C9_Sentinel ==
    Printed(Line2) =>
        \A rs \in {PerFile2} : \A k \in 1..Len(OutPaths) :
            Reaches2(rs, k) /\ ~Readable(PairedInput(Basename(OutPaths[k])))
                => pc = "aborted" /\ err.kind = "Format"

\* every value of the terms tv has the shape that the track asks for
ShapeOK(tv) ==
    /\ IsDict(tv)
    /\ \A n \in 1..Len(tv.items) :
          IF track = 1 THEN tv.items[n][2].ty = "str"
          ELSE /\ tv.items[n][2].ty = "list"
               /\ \A e \in 1..Len(tv.items[n][2].items) : tv.items[n][2].items[e].ty = "str"
\* the record r of the output name f reaches stage 3's test of the terms
ReachesTerms(r, f) ==
    /\ NameMode(f) \in TermModes
    /\ IsDict(r)
    /\ SeqToSet(Keys(r)) = SeqToSet(ExpectedKeys(f))
    /\ Get(r, NameSrc(f)).ty = "str"
    /\ Get(r, NameTgt(f)).ty = "str"

\* C10: the Schema Validator accepts the terms of a record of a random or
\* proper file exactly when they are a mapping whose values all have the
\* shape of the track (track 2: a list of text values only), and rejects a
\* mapping with another value with the wrong-terminology-value-type error;
\* a run that succeeded holds no other terms.
C10_TermsShape ==
    Printed(Line3) =>
    \A n \in 1..Len(OutPaths) :
        Readable(OutPaths[n]) =>
            \A i \in 1..Len(disk[OutPaths[n]].data) :
                LET p == OutPaths[n]
                    f == Basename(p)
                    r == disk[p].data[i]
                    res == datapoint_check_record(r, NameSrc(f), NameTgt(f), NameMode(f), track, p, i - 1)
                IN  ReachesTerms(r, f) =>
                        /\ res.kind = "ok" <=> ShapeOK(Get(r, terms))
                        /\ IsDict(Get(r, terms)) /\ ~ShapeOK(Get(r, terms)) => res.kind = "TermsValueType"
                        /\ pc = "done" => ShapeOK(Get(r, terms))

====
